---- MODULE Spec2Model ----
(***************************************************************************)
(* Model of the Dart pub front end for Artifact Registry.                  *)
(*                                                                         *)
(* Two server variants live in the repository:                             *)
(*   "layered"  : src/api/api.py -> PackageRepository -> ArtifactRegistry- *)
(*                Service                                                  *)
(*   "monolith" : main.py (ArtifactRegistryPubServer + module-level routes)*)
(*                                                                         *)
(* The artifact store is external: every HTTP call made to it returns a    *)
(* status and a payload chosen by the environment, call by call.           *)
(***************************************************************************)
EXTENDS Integers, Sequences, FiniteSets, TLC

\* ------------------------------------------------------------------ bounds
\* Largest number of version identifiers the store lists for a package.
MaxVersions == 2
\* Largest number of store calls (each fetching an access token first) made
\* while handling one request in the interleaved specification.
MaxStoreCalls == 2

\* --------------------------------------------------------- Python values
\* Python None (for string-typed optionals) and a missing mapping key.
NoneStr == <<"<None>">>
Absent == "<absent>"
NoDatetime == -1

\* ord(c) for the characters occurring in RFC 3339 timestamps.
Ord(c) ==
  CASE c = "-" -> 45 [] c = "." -> 46 [] c = "0" -> 48 [] c = "1" -> 49
    [] c = "2" -> 50 [] c = "3" -> 51 [] c = "4" -> 52 [] c = "5" -> 53
    [] c = "6" -> 54 [] c = "7" -> 55 [] c = "8" -> 56 [] c = "9" -> 57
    [] c = ":" -> 58 [] c = "T" -> 84 [] c = "Z" -> 90

IsDigit(c) == c \in {"0", "1", "2", "3", "4", "5", "6", "7", "8", "9"}

\* Python str < str: lexicographic by code point, a proper prefix is smaller.
RECURSIVE StrLess(_, _)
StrLess(a, b) ==
  IF a = <<>> THEN b # <<>>
  ELSE IF b = <<>> THEN FALSE
  ELSE IF Ord(Head(a)) < Ord(Head(b)) THEN TRUE
  ELSE IF Ord(Head(a)) > Ord(Head(b)) THEN FALSE
  ELSE StrLess(Tail(a), Tail(b))

\* Timestamps as the store's JSON gives them (protobuf Timestamp: the
\* fraction is omitted when zero, else 3, 6 or 9 digits), one char per item.
DayPrefix ==
  <<"2", "0", "2", "3", "-", "0", "1", "-", "0", "1", "T",
    "0", "0", ":", "0", "0", ":", "0">>
T_0 == DayPrefix \o <<"0", "Z">>
T_0500 == DayPrefix \o <<"0", ".", "5", "0", "0", "Z">>
CreateTimes == {NoneStr, T_0, T_0500}

\* datetime.fromisoformat(s.replace("Z", "+00:00")) for strings of the day
\* DayPrefix, as milliseconds since 2023-01-01T00:00:00Z; anything the
\* parser rejects, None and "" give None.
parse_datetime(s) ==
  IF s = NoneStr \/ s = <<>> THEN NoDatetime
  ELSE IF /\ Len(s) \in {20, 24}
          /\ SubSeq(s, 1, 18) = DayPrefix
          /\ IsDigit(s[19])
          /\ s[Len(s)] = "Z"
          /\ Len(s) = 24 =>
               (s[20] = "." /\ IsDigit(s[21]) /\ IsDigit(s[22]) /\ IsDigit(s[23]))
       THEN (Ord(s[19]) - 48) * 1000
            + (IF Len(s) = 24
                 THEN (Ord(s[21]) - 48) * 100 + (Ord(s[22]) - 48) * 10
                      + (Ord(s[23]) - 48)
                 ELSE 0)
       ELSE NoDatetime

\* The sort key of both variants: x.get("create_time") or "".
SortKey(x) == IF x.create_time = NoneStr THEN <<>> ELSE x.create_time

\* Variant of InsertNewestFirst that sorts ascending and reverses the list:
\* an element goes before the elements already placed with an equal key.
InsertNewestFirst_Reversed(acc, x) ==
  LET before == {i \in 1..Len(acc) : StrLess(SortKey(x), SortKey(acc[i]))}
      p == Cardinality(before)
  IN SubSeq(acc, 1, p) \o <<x>> \o SubSeq(acc, p + 1, Len(acc))

\* list.sort(key=..., reverse=True): stable, so an element goes after every
\* element already placed whose key is >= its own.
InsertNewestFirst(acc, x) ==
  LET before == {i \in 1..Len(acc) : ~StrLess(SortKey(acc[i]), SortKey(x))}
      p == Cardinality(before)
  IN SubSeq(acc, 1, p) \o <<x>> \o SubSeq(acc, p + 1, Len(acc))

RECURSIVE SortPrefix(_, _)
SortPrefix(list, n) ==
  IF n = 0 THEN <<>> ELSE InsertNewestFirst(SortPrefix(list, n - 1), list[n])

sort_newest_first(list) == SortPrefix(list, Len(list))

\* ------------------------------------------------------ archives and YAML
\* The parsed value of a manifest: a dict (with its name / version entries
\* and the number of its other keys), None, or a scalar string.
PyDict(n, v) == [t |-> "dict", v |-> "", name |-> n, version |-> v, others |-> 0]
EmptyDict == PyDict(Absent, Absent)
PyNone ==
  [t |-> "NoneType", v |-> "", name |-> Absent, version |-> Absent, others |-> 0]
PyStr(s) == [t |-> "str", v |-> s, name |-> Absent, version |-> Absent, others |-> 0]
YamlError ==
  [t |-> "raise", v |-> "YAMLError", name |-> Absent, version |-> Absent,
   others |-> 0]

\* Variant of Truthy in which a dict counts only when it has both name and
\* version (the handler testing the required keys before anything else).
Truthy_NameAndVersion(x) ==
  CASE x.t = "dict" -> x.name # Absent /\ x.version # Absent
    [] x.t = "str" -> x.v # ""
    [] OTHER -> FALSE

\* bool(x)
Truthy(x) ==
  CASE x.t = "dict" -> x.name # Absent \/ x.version # Absent \/ x.others > 0
    [] x.t = "str" -> x.v # ""
    [] OTHER -> FALSE

\* yaml.safe_load on the manifest texts of the archives below.
safe_load(content) ==
  CASE content = "name: foo\nversion: 1.2.3" -> PyDict("foo", "1.2.3")
    [] content = "name: bar\nversion: 2.0.0" -> PyDict("bar", "2.0.0")
    [] content = "name: foo" -> PyDict("foo", Absent)
    [] content = "version: 1.2.3" -> PyDict(Absent, "1.2.3")
    [] content = "name: ''\nversion: 1.2.3" -> PyDict("", "1.2.3")
    [] content = "description: x" -> [EmptyDict EXCEPT !.others = 1]
    [] content = "{}" -> EmptyDict
    [] content = "" -> PyNone
    [] content = "hello" -> PyStr("hello")
    [] content = "name: [" -> YamlError

\* A tar member: its path as chunks (the path is their concatenation), whether
\* extractfile gives a file object, whether its bytes are UTF-8, its text.
File(path, text) == [name |-> path, isfile |-> TRUE, utf8 |-> TRUE, content |-> text]
Dir(path) == [name |-> path, isfile |-> FALSE, utf8 |-> TRUE, content |-> ""]
Readme == File(<<"pkg/", "README.md">>, "hello")

\* name.endswith("pubspec.yaml")
EndsWithPubspec(path) == Len(path) > 0 /\ path[Len(path)] = "pubspec.yaml"

\* tarfile.open(mode="r:gz") on the byte strings of the model: the member
\* list, or gz = FALSE when the bytes are not a gzip-compressed tar.
NotATar == [gz |-> FALSE, members |-> <<>>]
Tar(ms) == [gz |-> TRUE, members |-> ms]
Manifest(text) == File(<<"pkg/", "pubspec.yaml">>, text)

EmptyBytes == "b_empty"
ArchiveBytes ==
  {EmptyBytes, "b_garbage", "b_nomanifest", "b_valid", "b_noversion",
   "b_noname", "b_emptyname", "b_emptymap", "b_emptydoc", "b_scalar",
   "b_badyaml", "b_badutf8", "b_dirfirst", "b_two", "b_suffix", "b_backup",
   "b_otherkeys"}

tarfile_open(b) ==
  CASE b = EmptyBytes -> NotATar
    [] b = "b_garbage" -> NotATar
    [] b = "b_nomanifest" -> Tar(<<Readme>>)
    [] b = "b_valid" -> Tar(<<Readme, Manifest("name: foo\nversion: 1.2.3")>>)
    [] b = "b_noversion" -> Tar(<<Manifest("name: foo")>>)
    [] b = "b_noname" -> Tar(<<Manifest("version: 1.2.3")>>)
    [] b = "b_emptyname" -> Tar(<<Manifest("name: ''\nversion: 1.2.3")>>)
    [] b = "b_emptymap" -> Tar(<<Manifest("{}")>>)
    [] b = "b_otherkeys" -> Tar(<<Manifest("description: x")>>)
    [] b = "b_emptydoc" -> Tar(<<Manifest("")>>)
    [] b = "b_scalar" -> Tar(<<Manifest("hello")>>)
    [] b = "b_badyaml" -> Tar(<<Manifest("name: [")>>)
    [] b = "b_badutf8" ->
         Tar(<<[name |-> <<"pubspec.yaml">>, isfile |-> TRUE, utf8 |-> FALSE,
                content |-> ""]>>)
    [] b = "b_dirfirst" ->
         Tar(<<Dir(<<"pubspec.yaml">>),
               File(<<"lib/", "pubspec.yaml">>, "name: bar\nversion: 2.0.0")>>)
    [] b = "b_two" ->
         Tar(<<Manifest("name: foo\nversion: 1.2.3"),
               File(<<"example/", "pubspec.yaml">>, "name: bar\nversion: 2.0.0")>>)
    [] b = "b_suffix" ->
         Tar(<<File(<<"old_", "pubspec.yaml">>, "name: bar\nversion: 2.0.0"),
               Manifest("name: foo\nversion: 1.2.3")>>)
    [] b = "b_backup" ->
         Tar(<<File(<<"pubspec.yaml", ".bak">>, "name: foo\nversion: 1.2.3")>>)

\* The members the loop returns from: path ends with pubspec.yaml and
\* extractfile gives a file object.
ManifestMembers(ms) ==
  {i \in 1..Len(ms) : EndsWithPubspec(ms[i].name) /\ ms[i].isfile}

\* Variant of FirstManifest in which the loop keeps going and the last match
\* wins.
FirstManifest_Last(ms) ==
  CHOOSE i \in ManifestMembers(ms) : \A j \in ManifestMembers(ms) : i >= j

FirstManifest(ms) ==
  CHOOSE i \in ManifestMembers(ms) : \A j \in ManifestMembers(ms) : i <= j

\* _extract_pubspec_from_archive / extract_pubspec_from_archive: the value
\* the call returns (every exception is caught inside and gives {}).
extract_pubspec_from_archive(archive_data) ==
  LET tar == tarfile_open(archive_data)
  IN IF ~tar.gz THEN EmptyDict
     ELSE IF ManifestMembers(tar.members) = {} THEN EmptyDict
     ELSE LET m == tar.members[FirstManifest(tar.members)]
          IN IF ~m.utf8 THEN EmptyDict
             ELSE IF safe_load(m.content).t = "raise" THEN EmptyDict
             ELSE safe_load(m.content)

\* hashlib.sha256(data).hexdigest(), kept symbolic.
calculate_sha256(data) == <<"sha256", data>>

\* ------------------------------------------------------ the artifact store
PackageName == "foo"
PROJECT_ID == "your-project-id"
LOCATION == "us-central1"
REPOSITORY == "dart-packages-repository"

\* The labels of the versions the store lists, by position in the listing.
VersionLabels == <<"1.0.0", "1.0.1", "1.0.2", "1.0.3">>

\* The version identifiers as both list_package_versions build them from the
\* store's JSON: version label and createTime (None when the field is absent).
VersionLists ==
  UNION {{[i \in 1..n |-> [version |-> VersionLabels[i], create_time |-> f[i]]]
            : f \in [1..n -> CreateTimes]} : n \in 0..MaxVersions}

\* HTTP status of a store call; 0 stands for a transport failure (requests
\* raises before any response exists).
Transport == 0
FailStatuses == {404, 500, Transport}

\* What the store answers to the two listing calls of one request: the
\* packages call (status, whether the filter matched a package) and the
\* versions call (status, the versions).
Listing(pk, found, vr, vs) ==
  [pk |-> pk, found |-> found, vr |-> vr, versions |-> vs]

ListingScenarios ==
  {Listing(s, FALSE, 200, <<>>) : s \in FailStatuses}
    \cup {Listing(200, FALSE, 200, <<>>)}
    \cup {Listing(200, TRUE, s, <<>>) : s \in FailStatuses}
    \cup {Listing(200, TRUE, 200, vs) : vs \in VersionLists}

\* What the store answers to one download call.
StoredBytes == {EmptyBytes, "b_valid"}
DownloadOutcomes ==
  {[status |-> 500, content |-> EmptyBytes]}
    \cup {[status |-> 200, content |-> b] : b \in StoredBytes}

\* What the store answers to one files call (main.py only): the status and
\* whether a package.tar.gz file is listed.
FilesOutcomes == {[status |-> 500, listed |-> FALSE], [status |-> 200, listed |-> TRUE]}

UploadStatuses == {200, 201, 403, 500, Transport}

\* str(e) of what requests raises: HTTPError from raise_for_status, or a
\* ConnectionError.
StoreUrl == "https://artifactregistry.googleapis.com/..."
ErrText(status) ==
  CASE status = Transport -> <<"Connection aborted.">>
    [] status = 404 -> <<"404", " Client Error: Not Found for url: ", StoreUrl>>
    [] status = 403 -> <<"403", " Client Error: Forbidden for url: ", StoreUrl>>
    [] OTHER -> <<"500", " Server Error: Internal Server Error for url: ", StoreUrl>>

\* "404" in str(e)
Contains404(text) == \E i \in 1..Len(text) : text[i] = "404"

\* Variant of RaiseForStatus in which raise_for_status() is never called, so
\* only a transport failure raises.
RaiseForStatus_Unchecked(status) == status = Transport

\* response.raise_for_status() raises, or the call itself raised
RaiseForStatus(status) == status = Transport \/ status >= 400

Returned(v) == [raised |-> FALSE, err |-> <<>>, value |-> v]
Raised(e) == [raised |-> TRUE, err |-> e, value |-> <<>>]

\* ArtifactRegistryService.list_package_versions
service_list_package_versions(sc) ==
  IF RaiseForStatus(sc.pk) THEN Raised(ErrText(sc.pk))
  ELSE IF ~sc.found THEN Returned(<<>>)
  ELSE IF RaiseForStatus(sc.vr) THEN Raised(ErrText(sc.vr))
  ELSE Returned(sc.versions)

\* ArtifactRegistryPubServer.list_package_versions
main_list_package_versions(sc) ==
  IF sc.pk = Transport \/ sc.pk # 200 THEN <<>>
  ELSE IF ~sc.found THEN <<>>
  ELSE IF sc.vr = Transport THEN <<>>
  ELSE IF sc.vr # 200 THEN sort_newest_first(<<>>)
  ELSE sort_newest_first(sc.versions)

\* ArtifactRegistryService.download_package_file
service_download_package_file(o) ==
  IF RaiseForStatus(o.status) THEN Raised(ErrText(o.status))
  ELSE Returned(o.content)

\* Optional[PackageMetadata] / the metadata dict of main.py
NoMetadata == [none |-> TRUE, pubspec |-> EmptyDict, archive_sha256 |-> <<>>]
Metadata(data) ==
  [none |-> FALSE, pubspec |-> extract_pubspec_from_archive(data),
   archive_sha256 |-> calculate_sha256(data)]

\* PackageRepository._get_package_metadata, given the store's answer to its
\* download call: every exception is caught and gives None.
get_package_metadata(o) ==
  LET d == service_download_package_file(o)
  IN IF d.raised THEN NoMetadata
     ELSE IF d.value = EmptyBytes THEN NoMetadata
     ELSE Metadata(d.value)

\* ArtifactRegistryPubServer.download_package: the content, or None
NoneBytes == "<None>"
main_download_package(o) ==
  IF o.status = Transport THEN NoneBytes
  ELSE IF o.status = 200 THEN o.content
  ELSE NoneBytes

\* ArtifactRegistryPubServer.get_package_metadata
main_get_package_metadata(o) ==
  LET d == main_download_package(o)
  IN IF d = NoneBytes \/ d = EmptyBytes THEN NoMetadata ELSE Metadata(d)

\* PackageRepository._get_download_url
get_download_url(package_name, version) ==
  <<"https://artifactregistry.googleapis.com/download/v1/", "projects/",
    PROJECT_ID, "/locations/", LOCATION, "/repositories/", REPOSITORY,
    "/packages/", package_name, "/versions/", version, "/files/package.tar.gz">>

\* ArtifactRegistryPubServer.get_package_file_url, given the store's answer
\* to its files call: the URL of the listed package.tar.gz, or None.
get_package_file_url(package_name, version, o) ==
  IF o.status = Transport \/ o.status # 200 THEN NoneStr
  ELSE IF o.listed
    THEN <<"https://artifactregistry.googleapis.com/download/v1/", "projects/",
           PROJECT_ID, "/locations/", LOCATION, "/repositories/", REPOSITORY,
           "/files/", package_name, ":", version, ":package.tar.gz">>
    ELSE NoneStr

\* ------------------------------------------------- PackageRepository (layered)
\* A store call as logged by the model.
Call(op, package_name, version, data) ==
  [op |-> op, name |-> package_name, version |-> version, data |-> data]

\* PackageVersion built by the loop body of get_package from the identifier
\* vd and the store's answer o to the download of that version.
PackageVersion(package_name, vd, o) ==
  LET metadata == get_package_metadata(o)
  IN [name |-> package_name,
      version |-> vd.version,
      create_time |-> parse_datetime(vd.create_time),
      archive_url |-> get_download_url(package_name, vd.version),
      archive_sha256 |-> IF metadata.none THEN <<>> ELSE metadata.archive_sha256,
      pubspec |-> IF metadata.none THEN EmptyDict ELSE metadata.pubspec]

\* Whether the loop body raises for an identifier (and the version is then
\* skipped by the except clause): _get_package_metadata and _parse_datetime
\* catch every Exception themselves, and the service always sets "version",
\* so no statement of the body raises.
LoopBodyRaises(vd, o) == FALSE

\* The loop of get_package over the first n sorted identifiers; dl[i] is the
\* store's answer to the i-th download call.
RECURSIVE ConvertVersions(_, _, _, _)
ConvertVersions(package_name, sorted, dl, n) ==
  IF n = 0 THEN <<>>
  ELSE IF LoopBodyRaises(sorted[n], dl[n])
    THEN ConvertVersions(package_name, sorted, dl, n - 1)
    ELSE Append(ConvertVersions(package_name, sorted, dl, n - 1),
                PackageVersion(package_name, sorted[n], dl[n]))

NoVersion ==
  [name |-> "", version |-> "", create_time |-> NoDatetime, archive_url |-> NoneStr,
   archive_sha256 |-> <<>>, pubspec |-> EmptyDict]

Failure(kind, message, calls) ==
  [kind |-> kind, message |-> message, name |-> "", latest |-> NoVersion,
   versions |-> <<>>, calls |-> calls]

ListCall(package_name) == Call("list", package_name, "", "")
DownloadCalls(package_name, sorted) ==
  [i \in 1..Len(sorted) |-> Call("download", package_name, sorted[i].version, "")]

\* Variant of get_package without the "if not versions_data" check after the
\* listing.
get_package_NoEmptyCheck(package_name, sc, dl) ==
  LET listed == service_list_package_versions(sc)
      sorted == sort_newest_first(listed.value)
      versions == ConvertVersions(package_name, sorted, dl, Len(sorted))
      calls == <<ListCall(package_name)>>
  IN IF listed.raised
       THEN IF Contains404(listed.err)
              THEN Failure("PackageNotFoundError",
                           <<"Package ", package_name, " not found">>, calls)
              ELSE Failure("Exception",
                           <<"Failed to retrieve package ", package_name, ": ">>
                             \o listed.err, calls)
     ELSE IF versions = <<>>
       THEN Failure("Exception",
                    <<"No valid versions found for package ", package_name>>,
                    calls \o DownloadCalls(package_name, sorted))
     ELSE [kind |-> "Package", message |-> <<>>, name |-> package_name,
           latest |-> versions[1], versions |-> versions,
           calls |-> calls \o DownloadCalls(package_name, sorted)]


\* PackageRepository.get_package: the Package returned or the exception
\* raised, and the store calls made.
get_package(package_name, sc, dl) ==
  LET listed == service_list_package_versions(sc)
      sorted == sort_newest_first(listed.value)
      versions == ConvertVersions(package_name, sorted, dl, Len(sorted))
      calls == <<ListCall(package_name)>>
  IN IF listed.raised
       THEN IF Contains404(listed.err)
              THEN Failure("PackageNotFoundError",
                           <<"Package ", package_name, " not found">>, calls)
              ELSE Failure("Exception",
                           <<"Failed to retrieve package ", package_name, ": ">>
                             \o listed.err, calls)
     ELSE IF listed.value = <<>>
       THEN Failure("PackageNotFoundError",
                    <<"Package ", package_name, " not found">>, calls)
     ELSE IF versions = <<>>
       THEN Failure("Exception",
                    <<"No valid versions found for package ", package_name>>,
                    calls \o DownloadCalls(package_name, sorted))
     ELSE [kind |-> "Package", message |-> <<>>, name |-> package_name,
           latest |-> versions[1], versions |-> versions,
           calls |-> calls \o DownloadCalls(package_name, sorted)]


\* PackageRepository.upload_package, given the store's answer (a status) to
\* the upload call: the UploadResult and the store calls made.
BASE_URL == <<"http://pub.example">>
HOST_URL == BASE_URL \o <<"/">>

UploadResult(success, message, finalize_url, calls) ==
  [success |-> success, message |-> message, finalize_url |-> finalize_url,
   calls |-> calls]

\* Variant of HasKey that tests the value against "" only, so a missing key
\* (None) passes.
HasKey_EmptyOnly(value) == value # ""

\* bool(pubspec.get(key))
HasKey(value) == value # Absent /\ value # ""

repo_upload_package(package_data, us) ==
  LET pubspec == extract_pubspec_from_archive(package_data)
      upload == Call("upload", pubspec.name, pubspec.version, package_data)
  IN IF ~Truthy(pubspec)
       THEN UploadResult(FALSE, <<"Could not extract pubspec.yaml from archive">>,
                         NoneStr, <<>>)
     ELSE IF pubspec.t # "dict"
       THEN UploadResult(FALSE,
              <<"Upload failed: ", "'str' object has no attribute 'get'">>,
              NoneStr, <<>>)
     ELSE IF ~HasKey(pubspec.name) \/ ~HasKey(pubspec.version)
       THEN UploadResult(FALSE, <<"Missing name or version in pubspec.yaml">>,
                         NoneStr, <<>>)
     ELSE IF RaiseForStatus(us)
       THEN UploadResult(FALSE, <<"Upload failed: ">> \o ErrText(us), NoneStr,
                         <<upload>>)
     ELSE UploadResult(TRUE,
            <<"Package ", pubspec.name, " version ", pubspec.version,
              " uploaded successfully">>,
            BASE_URL \o <<"/", "finalize/", pubspec.name, "/", pubspec.version>>,
            <<upload>>)

\* ArtifactRegistryPubServer.upload_package: True or False
main_store_upload(us) == us # Transport /\ us \in {200, 201}

\* ------------------------------------------------------------ HTTP handlers
NoBody == [name |-> "", latest |-> <<>>, versions |-> <<>>]
Response(status, code, message) ==
  [status |-> status, code |-> code, message |-> message, location |-> NoneStr,
   body |-> NoBody]

\* What Flask answers when a view function lets an exception escape.
InternalServerError == Response(500, "internal_server_error", <<"Internal Server Error">>)

VersionJson(v) ==
  [version |-> v.version, archive_url |-> v.archive_url,
   archive_sha256 |-> v.archive_sha256, pubspec |-> v.pubspec]

\* list_package_versions of api.py, given what get_package did.
api_list_package_versions(package_name, package) ==
  CASE package.kind = "Package" ->
         [Response(200, "", <<>>) EXCEPT
            !.body = [name |-> package.name,
                      latest |-> VersionJson(package.latest),
                      versions |-> [i \in 1..Len(package.versions) |->
                                      VersionJson(package.versions[i])]]]
    [] package.kind = "PackageNotFoundError" ->
         Response(404, "not_found", <<"Package ", package_name, " not found">>)
    [] package.kind = "PackageRepositoryError" ->
         Response(500, "repository_error", package.message)
    [] OTHER -> InternalServerError

\* upload_package of api.py; file is FALSE when the form has no "file" part.
api_upload_package(file, result) ==
  IF ~file THEN Response(400, "missing_file", <<"No file provided">>)
  ELSE IF result.success
    THEN [Response(204, "", <<>>) EXCEPT !.location = result.finalize_url]
    ELSE Response(500, "upload_failed", result.message)

\* The records of a Package whose label is the requested one, in order.
Matching(package, version) ==
  {i \in 1..Len(package.versions) : package.versions[i].version = version}

VersionInfoJson(v) ==
  [version |-> v.version, archive_url |-> v.archive_url, pubspec |-> v.pubspec]

VersionNotFound(package_name, version) ==
  Response(404, "version_not_found",
           <<"Version ", version, " not found for package ", package_name>>)

\* Variant of api_get_package_version that answers with the first record
\* without comparing its label.
api_get_package_version_First(package_name, version, package) ==
  CASE package.kind = "Package" ->
         [Response(200, "", <<>>) EXCEPT
            !.body = VersionInfoJson(package.versions[1])]
    [] package.kind = "PackageNotFoundError" ->
         Response(404, "not_found", <<"Package ", package_name, " not found">>)
    [] OTHER -> InternalServerError

\* get_package_version of api.py (deprecated route), given what get_package
\* did: only PackageNotFoundError is caught.
api_get_package_version(package_name, version, package) ==
  CASE package.kind = "Package" ->
         IF Matching(package, version) # {}
           THEN [Response(200, "", <<>>) EXCEPT
                   !.body = VersionInfoJson(package.versions[
                              CHOOSE i \in Matching(package, version) :
                                \A j \in Matching(package, version) : i <= j])]
           ELSE VersionNotFound(package_name, version)
    [] package.kind = "PackageNotFoundError" ->
         Response(404, "not_found", <<"Package ", package_name, " not found">>)
    [] OTHER -> InternalServerError

\* list_package_versions of main.py: dl[1], fu[1] answer the calls made for
\* "latest", dl[i + 1], fu[i + 1] those made for versions[i].
main_version_json(package_name, vd, o, f) ==
  LET metadata == main_get_package_metadata(o)
  IN [version |-> vd.version,
      archive_url |-> get_package_file_url(package_name, vd.version, f),
      archive_sha256 |-> IF metadata.none THEN <<>> ELSE metadata.archive_sha256,
      pubspec |-> IF metadata.none THEN EmptyDict ELSE metadata.pubspec]

main_list_calls(package_name, versions) ==
  <<ListCall(package_name)>>
    \o IF versions = <<>> THEN <<>>
       ELSE <<Call("download", package_name, versions[1].version, ""),
              Call("files", package_name, versions[1].version, "")>>
            \o [k \in 1..(2 * Len(versions)) |->
                  Call(IF k % 2 = 1 THEN "download" ELSE "files", package_name,
                       versions[(k + 1) \div 2].version, "")]

main_list_versions_response(package_name, sc, dl, fu) ==
  LET versions == main_list_package_versions(sc)
  IN IF versions = <<>>
       THEN Response(404, "not_found", <<"Package not found">>)
       ELSE [Response(200, "", <<>>) EXCEPT
               !.body = [name |-> package_name,
                         latest |-> main_version_json(package_name, versions[1],
                                                      dl[1], fu[1]),
                         versions |-> [i \in 1..Len(versions) |->
                                         main_version_json(package_name, versions[i],
                                                           dl[i + 1], fu[i + 1])]]]

\* upload_package of main.py: the response and the store calls made.
main_upload_package(file, file_data, us) ==
  LET pubspec == extract_pubspec_from_archive(file_data)
      upload == Call("upload", pubspec.name, pubspec.version, file_data)
      Out(r, calls) == [resp |-> r, calls |-> calls]
  IN IF ~file THEN Out(Response(400, "missing_file", <<"No file provided">>), <<>>)
     ELSE IF ~Truthy(pubspec)
       THEN Out(Response(400, "invalid_package", <<"Could not extract pubspec.yaml">>),
                <<>>)
     ELSE IF pubspec.t # "dict" THEN Out(InternalServerError, <<>>)
     ELSE IF ~HasKey(pubspec.name) \/ ~HasKey(pubspec.version)
       THEN Out(Response(400, "invalid_pubspec",
                         <<"Missing name or version in pubspec.yaml">>), <<>>)
     ELSE IF main_store_upload(us)
       THEN Out([Response(204, "", <<>>) EXCEPT
                   !.location = HOST_URL \o <<"finalize/", pubspec.name, "/",
                                              pubspec.version>>],
                <<upload>>)
     ELSE Out(Response(500, "upload_failed", <<"Upload failed">>), <<upload>>)

\* ------------------------------------------------------------ state machine
VARIABLES
  phase,    \* "idle": waiting for a request; "done": the response is out
  variant,  \* which server is deployed: "layered" or "monolith"
  op,       \* the route handled: "list", "upload", or "extract" (a direct call)
  req,      \* the request: the uploaded bytes, whether a file part was sent
  env,      \* what the store answered to the calls of this request
  ret,      \* what the repository returned (Package, UploadResult, manifest)
  resp,     \* the HTTP response
  calls,    \* the store calls made while handling the request, in order
  token,    \* credentials.token of the one service object all requests use
  rpc,      \* per in-flight request: where it is in _get_access_token
  left,     \* per in-flight request: store calls still to make
  bearer    \* per in-flight request: the token it read for its next call

seqVars == <<phase, op, req, env, ret, resp, calls>>
concVars == <<token, rpc, left, bearer>>
vars == <<phase, variant, op, req, env, ret, resp, calls, token, rpc, left, bearer>>

\* The requests in flight at once in the interleaved specification.
Requests == {1, 2}
NoToken == [by |-> 0, n |-> 0]
ConcIdle ==
  /\ token = NoToken
  /\ rpc = [r \in Requests |-> "idle"]
  /\ left = [r \in Requests |-> 0]
  /\ bearer = [r \in Requests |-> NoToken]

NoReq == [file |-> FALSE, data |-> EmptyBytes]
NoEnv == [listing |-> Listing(200, FALSE, 200, <<>>), dl |-> <<>>, fu |-> <<>>, us |-> 200]
NoRet == [kind |-> "none"]
NoResp == Response(0, "", <<>>)

Init ==
  /\ phase = "idle"
  /\ variant \in {"layered", "monolith"}
  /\ op = "none"
  /\ req = NoReq
  /\ env = NoEnv
  /\ ret = NoRet
  /\ resp = NoResp
  /\ calls = <<>>
  /\ ConcIdle

\* GET /api/packages/<package_name> on the layered server.
ListVersionsLayered ==
  /\ UNCHANGED concVars
  /\ phase = "idle"
  /\ variant = "layered"
  /\ \E sc \in ListingScenarios :
       \E dl \in [1..Len(sc.versions) -> DownloadOutcomes] :
         LET package == get_package(PackageName, sc, dl)
         IN /\ env' = [NoEnv EXCEPT !.listing = sc, !.dl = dl]
            /\ ret' = [package EXCEPT !.calls = <<>>]
            /\ calls' = package.calls
            /\ resp' = api_list_package_versions(PackageName, package)
  /\ phase' = "done"
  /\ UNCHANGED variant
  /\ op' = "list"
  /\ req' = NoReq

\* GET /api/packages/<package_name> on main.py.
ListVersionsMain ==
  /\ UNCHANGED concVars
  /\ phase = "idle"
  /\ variant = "monolith"
  /\ \E sc \in ListingScenarios :
       LET n == IF sc.versions = <<>> THEN 0 ELSE Len(sc.versions) + 1
       IN \E dl \in [1..n -> DownloadOutcomes], fu \in [1..n -> FilesOutcomes] :
            /\ env' = [NoEnv EXCEPT !.listing = sc, !.dl = dl, !.fu = fu]
            /\ resp' = main_list_versions_response(PackageName, sc, dl, fu)
            /\ calls' = main_list_calls(PackageName, main_list_package_versions(sc))
  /\ ret' = NoRet
  /\ phase' = "done"
  /\ UNCHANGED variant
  /\ op' = "list"
  /\ req' = NoReq

\* The version labels a client asks for on the deprecated route.
RequestedVersions == {VersionLabels[i] : i \in 1..MaxVersions} \cup {"9.9.9"}

\* GET /api/packages/<package_name>/versions/<version> (api.py only).
GetPackageVersion ==
  /\ UNCHANGED concVars
  /\ phase = "idle"
  /\ variant = "layered"
  /\ \E version \in RequestedVersions, sc \in ListingScenarios :
       \E dl \in [1..Len(sc.versions) -> DownloadOutcomes] :
         LET package == get_package(PackageName, sc, dl)
         IN /\ req' = [file |-> FALSE, data |-> EmptyBytes, version |-> version]
            /\ env' = [NoEnv EXCEPT !.listing = sc, !.dl = dl]
            /\ ret' = [package EXCEPT !.calls = <<>>]
            /\ calls' = package.calls
            /\ resp' = api_get_package_version(PackageName, version, package)
  /\ phase' = "done"
  /\ UNCHANGED variant
  /\ op' = "version"

\* POST /upload on the layered server.
UploadLayered ==
  /\ UNCHANGED concVars
  /\ phase = "idle"
  /\ variant = "layered"
  /\ \E file \in BOOLEAN, data \in ArchiveBytes, us \in UploadStatuses :
       LET result == IF file THEN repo_upload_package(data, us)
                     ELSE UploadResult(FALSE, <<>>, NoneStr, <<>>)
       IN /\ file = FALSE => (data = EmptyBytes /\ us = 200)
          /\ req' = [file |-> file, data |-> data]
          /\ env' = [NoEnv EXCEPT !.us = us]
          /\ ret' = IF file THEN [result EXCEPT !.calls = <<>>] ELSE NoRet
          /\ calls' = result.calls
          /\ resp' = api_upload_package(file, result)
  /\ phase' = "done"
  /\ UNCHANGED variant
  /\ op' = "upload"

\* POST /upload on main.py.
UploadMain ==
  /\ UNCHANGED concVars
  /\ phase = "idle"
  /\ variant = "monolith"
  /\ \E file \in BOOLEAN, data \in ArchiveBytes, us \in UploadStatuses :
       LET out == main_upload_package(file, data, us)
       IN /\ file = FALSE => (data = EmptyBytes /\ us = 200)
          /\ req' = [file |-> file, data |-> data]
          /\ env' = [NoEnv EXCEPT !.us = us]
          /\ calls' = out.calls
          /\ resp' = out.resp
  /\ ret' = NoRet
  /\ phase' = "done"
  /\ UNCHANGED variant
  /\ op' = "upload"

\* A direct call of _extract_pubspec_from_archive / extract_pubspec_from_archive.
ExtractPubspec ==
  /\ UNCHANGED concVars
  /\ phase = "idle"
  /\ \E data \in ArchiveBytes :
       /\ req' = [file |-> TRUE, data |-> data]
       /\ ret' = [kind |-> "manifest", value |-> extract_pubspec_from_archive(data)]
  /\ phase' = "done"
  /\ op' = "extract"
  /\ UNCHANGED variant
  /\ env' = NoEnv
  /\ resp' = NoResp
  /\ calls' = <<>>

\* The response is out; the server waits for the next request. Nothing of
\* the request outlives it.
NextRequest ==
  /\ UNCHANGED concVars
  /\ phase = "done"
  /\ phase' = "idle"
  /\ op' = "none"
  /\ req' = NoReq
  /\ env' = NoEnv
  /\ ret' = NoRet
  /\ resp' = NoResp
  /\ calls' = <<>>
  /\ UNCHANGED variant

Next ==
  \/ ListVersionsLayered
  \/ ListVersionsMain
  \/ GetPackageVersion
  \/ UploadLayered
  \/ UploadMain
  \/ ExtractPubspec
  \/ NextRequest

Spec == Init /\ [][Next]_vars

\* ------------------------------------------- requests handled concurrently
\* Both servers build one service object (pub_server / artifact_service) at
\* start-up and every request thread uses it. Each store call first runs
\* _get_access_token: credentials.refresh(request) stores a fresh token in
\* the shared credentials, then credentials.token is read back.

\* A request arrives; its handler will make k store calls.
Arrive(r) ==
  /\ rpc[r] = "idle"
  /\ \E k \in 1..MaxStoreCalls : left' = [left EXCEPT ![r] = k]
  /\ rpc' = [rpc EXCEPT ![r] = "call"]
  /\ UNCHANGED <<token, bearer, variant, seqVars>>

\* self.credentials.refresh(request): a fresh token is written.
Refresh(r) ==
  /\ rpc[r] = "call"
  /\ token' = [by |-> r, n |-> left[r]]
  /\ rpc' = [rpc EXCEPT ![r] = "refreshed"]
  /\ UNCHANGED <<left, bearer, variant, seqVars>>

\* return self.credentials.token
ReadToken(r) ==
  /\ rpc[r] = "refreshed"
  /\ bearer' = [bearer EXCEPT ![r] = token]
  /\ rpc' = [rpc EXCEPT ![r] = "send"]
  /\ UNCHANGED <<token, left, variant, seqVars>>

\* requests.get / requests.post with the Authorization header built from it.
StoreCall(r) ==
  /\ rpc[r] = "send"
  /\ left' = [left EXCEPT ![r] = left[r] - 1]
  /\ rpc' = [rpc EXCEPT ![r] = IF left[r] > 1 THEN "call" ELSE "respond"]
  /\ UNCHANGED <<token, bearer, variant, seqVars>>

\* The response goes out; the request's locals are gone.
Respond(r) ==
  /\ rpc[r] = "respond"
  /\ rpc' = [rpc EXCEPT ![r] = "idle"]
  /\ bearer' = [bearer EXCEPT ![r] = NoToken]
  /\ UNCHANGED <<token, left, variant, seqVars>>

NextConc ==
  \E r \in Requests :
    \/ Arrive(r)
    \/ Refresh(r)
    \/ ReadToken(r)
    \/ StoreCall(r)
    \/ Respond(r)

SpecConc == Init /\ [][NextConc]_vars

\* ------------------------------------------------------------ properties
Done(o) == phase = "done" /\ op = o

\* The store listed these identifiers without any failure.
Listed == env.listing.pk = 200 /\ env.listing.found /\ env.listing.vr = 200
ListedVersions == IF Listed THEN env.listing.versions ELSE <<>>

\* The i-th download call of a layered listing fetched nothing usable: the
\* download failed, or no manifest could be extracted from what came back.
FetchFailed(o) ==
  \/ o.status # 200
  \/ o.content = EmptyBytes
  \/ ~Truthy(extract_pubspec_from_archive(o.content))

\* The label asked for by the i-th download call (calls[1] is the listing).
DownloadedLabel(i) == calls[i + 1].version
FailedLabels == {DownloadedLabel(i) : i \in {j \in DOMAIN env.dl : FetchFailed(env.dl[j])}}
RecordLabels(vs) == {vs[i].version : i \in 1..Len(vs)}

\* C1: in get_package, with N > 1 identifiers listed, a version whose
\* download or manifest extraction fails is absent from Package.versions,
\* and with exactly one such version the Package has N - 1 records.
C1_FailedVersionSkipped ==
  (Done("list") /\ variant = "layered" /\ Len(ListedVersions) > 1
     /\ Cardinality(FailedLabels) = 1)
    => /\ ret.kind = "Package"
       /\ RecordLabels(ret.versions) \cap FailedLabels = {}
       /\ Len(ret.versions) = Len(ListedVersions) - 1

\* C2: in get_package, when identifiers are listed and the fetch or the
\* extraction fails for every one of them, the call raises the no-valid-
\* versions error (not PackageNotFound) and returns no Package.
C2_AllFailedRaises ==
  (Done("list") /\ variant = "layered" /\ Len(ListedVersions) >= 1
     /\ \A i \in DOMAIN env.dl : FetchFailed(env.dl[i]))
    => /\ ret.kind = "Exception"
       /\ ret.message = <<"No valid versions found for package ", PackageName>>

\* C3: when every fetch succeeds, get_package returns one record per listed
\* identifier, newest createdAt first, records without createdAt last.
C3_SortedByCreatedAt ==
  (Done("list") /\ variant = "layered" /\ Len(ListedVersions) >= 1
     /\ \A i \in DOMAIN env.dl : ~FetchFailed(env.dl[i]))
    => /\ ret.kind = "Package"
       /\ Len(ret.versions) = Len(ListedVersions)
       /\ RecordLabels(ret.versions) = RecordLabels(ListedVersions)
       /\ \A i, j \in 1..Len(ret.versions) :
            i < j => ret.versions[i].create_time >= ret.versions[j].create_time

\* C4: every Package returned by get_package and every 200 response of
\* GET /api/packages/{name}, on either server, has versions non-empty and
\* latest equal to versions[0].
C4_LatestIsFirst ==
  /\ (Done("list") /\ variant = "layered" /\ ret.kind = "Package")
       => (ret.versions # <<>> /\ ret.latest = ret.versions[1])
  /\ (Done("list") /\ resp.status = 200)
       => (resp.body.versions # <<>> /\ resp.body.latest = resp.body.versions[1])

\* The store answered the listing with no identifier at all.
ListedNothing ==
  /\ env.listing.pk = 200
  /\ ~env.listing.found \/ (env.listing.vr = 200 /\ env.listing.versions = <<>>)

NoDownload == \A i \in 1..Len(calls) : calls[i].op # "download"

\* C5: when the store lists no identifier, get_package raises
\* PackageNotFound, no archive is downloaded, and the route answers 404
\* not_found.
C5_EmptyListingNotFound ==
  (Done("list") /\ ListedNothing)
    => /\ variant = "layered" => ret.kind = "PackageNotFoundError"
       /\ NoDownload
       /\ resp.status = 404
       /\ resp.code = "not_found"

C5_Witness ==
  /\ Done("list") /\ variant = "layered"
  /\ env.listing = Listing(200, TRUE, 200, <<>>)
  /\ ret.kind = "PackageNotFoundError" /\ resp.status = 404

\* The manifest of the uploaded bytes and whether it has name and version.
UploadedManifest == extract_pubspec_from_archive(req.data)
HasNameAndVersion(m) == m.t = "dict" /\ m.name # Absent /\ m.version # Absent
StoreUploadCalled == \E i \in 1..Len(calls) : calls[i].op = "upload"

\* C6: an upload whose manifest is empty or lacks name or version fails
\* (no success, no finalize URL) without any store upload; the store upload
\* is called only for a manifest with both name and version.
C6_InvalidManifestNeverUploaded ==
  (Done("upload") /\ req.file)
    => /\ ~HasNameAndVersion(UploadedManifest)
            => /\ ~StoreUploadCalled
               /\ resp.status # 204 /\ resp.location = NoneStr
               /\ variant = "layered"
                    => (~ret.success /\ ret.finalize_url = NoneStr)
       /\ StoreUploadCalled => HasNameAndVersion(UploadedManifest)

C6_Witness ==
  /\ Done("upload") /\ variant = "layered" /\ req.file
  /\ req.data = "b_noversion"
  /\ ~ret.success /\ calls = <<>>

\* No manifest entry at all / a manifest without name or version.
ManifestMissing == UploadedManifest = EmptyDict
ManifestInvalid ==
  /\ UploadedManifest.t = "dict"
  /\ UploadedManifest # EmptyDict
  /\ ~HasKey(UploadedManifest.name) \/ ~HasKey(UploadedManifest.version)

\* C7: POST /upload with no manifest, or a manifest lacking name or version,
\* is answered 400 on either server; 500 only follows a store failure.
C7_ManifestErrorsAre400 ==
  (Done("upload") /\ req.file)
    => (/\ (ManifestMissing \/ ManifestInvalid) => resp.status = 400
        /\ resp.status = 500 => StoreUploadCalled)

\* The store's upload operation succeeded / failed.
StoreUploadOk == env.us \in {200, 201}
FinalizeUrl(m) == BASE_URL \o <<"/", "finalize/", m.name, "/", m.version>>

C9_ExtractReturnsMapping ==
  Done("extract")
    => /\ ret.value.t = "dict"
       /\ (\/ ~tarfile_open(req.data).gz
           \/ ManifestMembers(tarfile_open(req.data).members) = {})
            => ret.value = EmptyDict

\* The listing failed for a reason other than the package being unknown.
ListingStoreFailure ==
  \/ env.listing.pk \in {500, Transport}
  \/ env.listing.pk = 200 /\ env.listing.found /\ env.listing.vr \in {500, Transport}

\* C10: a store failure while listing surfaces from GET /api/packages/{name}
\* as 500 with a generic message, never as 404 not_found, and without the
\* cause text.
C10_StoreFailureIs500 ==
  (Done("list") /\ ListingStoreFailure)
    => /\ resp.status = 500
       /\ resp.code # "not_found"
       /\ resp.message = <<"Internal Server Error">>

\* C11: concurrently handled requests share no mutable state: what one
\* request wrote is neither overwritten nor read by another, so a request
\* always reads back the token of its own refresh.
C11_NoSharedMutableState ==
  \A r \in Requests :
    /\ rpc[r] = "refreshed" => token.by = r
    /\ rpc[r] = "send" => bearer[r].by = r

\* C12: the archive URL of every version record is computed from project,
\* location, repository, package name and version label alone: no store
\* call is made for it and it is always a URL string, on either server.
C12_DownloadUrlIsPure ==
  (Done("list") /\ resp.status = 200)
    => /\ \A k \in 1..Len(calls) : calls[k].op \in {"list", "download"}
       /\ \A i \in 1..Len(resp.body.versions) :
            /\ resp.body.versions[i].archive_url # NoneStr
            /\ resp.body.versions[i].archive_url
                 = get_download_url(PackageName, resp.body.versions[i].version)

\* The archive holds no entry named like the manifest / holds a manifest
\* that parses to a mapping without name or without version.
NoManifestFile(b) ==
  /\ tarfile_open(b).gz
  /\ \A i \in 1..Len(tarfile_open(b).members) :
       ~EndsWithPubspec(tarfile_open(b).members[i].name)

ParsedManifest(b) ==
  safe_load(tarfile_open(b).members[FirstManifest(tarfile_open(b).members)].content)

ManifestLacksField(b) ==
  /\ tarfile_open(b).gz
  /\ ManifestMembers(tarfile_open(b).members) # {}
  /\ tarfile_open(b).members[FirstManifest(tarfile_open(b).members)].utf8
  /\ ParsedManifest(b).t = "dict"
  /\ ParsedManifest(b).name = Absent \/ ParsedManifest(b).version = Absent

HasSomeKey(b) ==
  \/ ParsedManifest(b).name # Absent
  \/ ParsedManifest(b).version # Absent
  \/ ParsedManifest(b).others > 0

\* The message the server in use sends back for an upload of b.
UploadFailureMessage(b) ==
  IF variant = "layered"
    THEN api_upload_package(TRUE, repo_upload_package(b, 200)).message
    ELSE main_upload_package(TRUE, b, 200).resp.message

\* C13 as stated: the failure message for an archive without manifest file
\* differs from the one for a manifest that is present but lacks name or
\* version.
C13_MessagesDiffer ==
  (Done("upload") /\ req.file /\ ManifestLacksField(req.data))
    => /\ resp.status # 204
       /\ \A a \in ArchiveBytes :
            NoManifestFile(a) => resp.message # UploadFailureMessage(a)

\* C13 as amended: the same, for a manifest that has at least one key.
C13_MessagesDifferNonEmpty ==
  (Done("upload") /\ req.file /\ ManifestLacksField(req.data)
     /\ HasSomeKey(req.data))
    => /\ resp.status # 204
       /\ \A a \in ArchiveBytes :
            NoManifestFile(a) => resp.message # UploadFailureMessage(a)

C13_Witness ==
  /\ Done("upload") /\ req.file /\ req.data = "b_otherkeys"
  /\ resp.message = <<"Missing name or version in pubspec.yaml">>
  /\ UploadFailureMessage("b_nomanifest") # resp.message

\* C14 as stated: the deprecated route answers 200 with the record whose
\* label is the requested one, or 404 (version_not_found when the package
\* has no such label, not_found when the package is unknown), nothing else.
VersionFound ==
  /\ resp.status = 200
  /\ ret.kind = "Package"
  /\ resp.body.version = req.version
  /\ \E i \in 1..Len(ret.versions) :
       /\ ret.versions[i].version = req.version
       /\ resp.body.archive_url = ret.versions[i].archive_url
       /\ resp.body.pubspec = ret.versions[i].pubspec

VersionMissing ==
  /\ resp.status = 404 /\ resp.code = "version_not_found"
  /\ ret.kind = "Package"
  /\ req.version \notin RecordLabels(ret.versions)

PackageUnknown ==
  /\ resp.status = 404 /\ resp.code = "not_found"
  /\ ret.kind = "PackageNotFoundError"
  /\ ListedNothing \/ env.listing.pk = 404 \/ env.listing.vr = 404

IsSha256Hex(x) == Len(x) = 2 /\ x[1] = "sha256"

\* C15: the digest is total and deterministic, and the archive_sha256 of
\* every version record of a returned Package is the 64-hex-character digest
\* of exactly the bytes downloaded for that version.
C15_DigestOfDownloadedBytes ==
  (Done("list") /\ variant = "layered" /\ ret.kind = "Package")
    => \A i \in 1..Len(ret.versions) :
         /\ IsSha256Hex(ret.versions[i].archive_sha256)
         /\ DownloadedLabel(i) = ret.versions[i].version
         /\ env.dl[i].status = 200
              => ret.versions[i].archive_sha256 = calculate_sha256(env.dl[i].content)

\* The members of the archive just extracted, and what parsing one gives
\* the caller ({} when its bytes do not decode or its text does not parse).
ExtractedMembers == tarfile_open(req.data).members
ParseOrEmpty(m) ==
  IF ~m.utf8 \/ safe_load(m.content).t = "raise" THEN EmptyDict
  ELSE safe_load(m.content)

Named == {i \in 1..Len(ExtractedMembers) : EndsWithPubspec(ExtractedMembers[i].name)}
NamedFiles == {i \in Named : ExtractedMembers[i].isfile}

PositionOf(label) ==
  CHOOSE k \in 1..Len(resp.body.versions) : resp.body.versions[k].version = label

\* C17: the newest-first sort is stable: records listed with equal creation
\* timestamps, and records listed without one, keep the order in which the
\* store listed them.
C17_SortIsStable ==
  (Done("list") /\ resp.status = 200)
    => /\ Len(resp.body.versions) = Len(ListedVersions)
       /\ \A i, j \in 1..Len(ListedVersions) :
            (i < j /\ ListedVersions[i].create_time = ListedVersions[j].create_time)
              => PositionOf(ListedVersions[i].version)
                   < PositionOf(ListedVersions[j].version)

C17_Witness ==
  /\ Done("list") /\ resp.status = 200
  /\ Len(ListedVersions) = 2
  /\ ListedVersions[1].create_time = T_0 /\ ListedVersions[2].create_time = T_0
  /\ resp.body.versions[1].version = ListedVersions[1].version
  /\ resp.body.versions[2].version = ListedVersions[2].version

====
